---------------------------- MODULE Spec2Model ----------------------------
(***************************************************************************)
(* Pedersen hash of sapling-crypto: the native computation                 *)
(* (src/src/pedersen_hash.rs) and the circuit gadget                       *)
(* (src/src/circuit/pedersen_hash.rs), run one after the other on the same *)
(* personalization, message bits and parameter set.                        *)
(*                                                                         *)
(* Scalars of the field Fs are 256-bit numbers kept as NLimbs limbs of     *)
(* LimbBits bits, least significant first, reduced modulo the group order. *)
(* A point of the prime-order subgroup is kept as its coefficient vector   *)
(* over the Pedersen generators G_1 .. G_n (one scalar per generator).     *)
(***************************************************************************)
EXTENDS Integers, Sequences, FiniteSets, TLC

\* ------------------------------------------------------------ bounds
\* Longest message of the exhaustive short range 0..MaxLen.
MaxLen == 3
\* Messages are periodic bit patterns of period PatLen (every message of
\* length <= PatLen is one of them).
PatLen == 2
\* The parameter set holds between 1 and MaxGens generators / segment tables.
MaxGens == 4
\* MerkleTree indices 0..MaxIndex are tried by get_bits.
MaxIndex == 64

\* ------------------------------------------------- program constants
\* params.pedersen_hash_chunks_per_generator(): windows per segment.
ChunksPerGenerator == 63
\* Bits per window.
WindowBits == 3
\* Number of personalization bits.
PersonalizationLen == 6
\* MerkleTree(num) requires num < MerkleLimit.
MerkleLimit == 63

\* ------------------------------------------------- scalar field Fs
NLimbs == 10
LimbBits == 28
Base == 2 ^ LimbBits

\* The tuple of the NLimbs limbs f[1], ..., f[NLimbs].
Limbs(f) ==
  << f[1], f[2], f[3], f[4], f[5], f[6], f[7], f[8], f[9], f[10] >>

\* The order s of the prime-order subgroup,
\* 0x0e7db4ea6533afa906673b0101343b00a6682093ccc81082d0970e5ed6f72cb7.
Modulus ==
  << 116862135, 158393837, 135299792, 34159820, 184591976, 1053507, 151414587, 106117882, 243119338, 0 >>

FsZero == Limbs([i \in 1..NLimbs |-> 0])

FsOne == Limbs([i \in 1..NLimbs |-> IF i = 1 THEN 1 ELSE 0])

\* The carry into limb i of a + b: some lower limb overflows and every limb
\* between it and i passes the carry on.
Carry(a, b, i) ==
  IF \E j \in 1..(i - 1) :
       /\ a[j] + b[j] >= Base
       /\ \A k \in (j + 1)..(i - 1) : a[k] + b[k] = Base - 1
  THEN 1 ELSE 0

\* a + b without reduction (add_nocarry); the operands are below 2^255.
AddNoCarry(a, b) ==
  Limbs([i \in 1..NLimbs |-> (a[i] + b[i] + Carry(a, b, i)) % Base])

\* The borrow out of limb i of a - b.
Borrow(a, b, i) ==
  IF \E j \in 1..(i - 1) :
       /\ a[j] < b[j]
       /\ \A k \in (j + 1)..(i - 1) : a[k] = b[k]
  THEN 1 ELSE 0

\* a - b for a >= b (sub_noborrow).
SubNoBorrow(a, b) ==
  Limbs([i \in 1..NLimbs |-> (a[i] - b[i] - Borrow(a, b, i) + Base) % Base])

\* a >= b as 256-bit numbers.
Geq(a, b) == Borrow(a, b, NLimbs + 1) = 0

\* reduce(): one conditional subtraction of the modulus.
FsReduce(a) == IF Geq(a, Modulus) THEN SubNoBorrow(a, Modulus) ELSE a

\* Fs::add_assign
FsAdd(a, b) == FsReduce(AddNoCarry(a, b))

\* Fs::double
FsDouble(a) == FsReduce(AddNoCarry(a, a))

\* Fs::negate
FsNegate(a) == IF a = FsZero THEN a ELSE SubNoBorrow(Modulus, a)

\* ------------------------------------------------- points
\* A point is its coefficient vector over the generators G_1 .. G_MaxGens.
PointZero == [g \in 1..MaxGens |-> FsZero]

\* generators[i].mul(acc): the scalar multiple acc * G_i.
GeneratorMul(i, k) == [g \in 1..MaxGens |-> IF g = i THEN k ELSE FsZero]

\* Point addition (Edwards add, Montgomery add): coefficient-wise sum.
PointAdd(p, q) == [g \in 1..MaxGens |-> FsAdd(p[g], q[g])]

PointNegate(p) == [g \in 1..MaxGens |-> FsNegate(p[g])]

\* ------------------------------------------------- personalization
NoteCommitment == [kind |-> "NoteCommitment", num |-> 0]

MerkleTree(n) == [kind |-> "MerkleTree", num |-> n]

\* Mutant of GetBitsDefined: the assertion admits index 63.
GetBitsDefinedInclusive(p) == p.kind = "NoteCommitment" \/ p.num <= MerkleLimit

\* The assertion of get_bits: it panics when this is false.
GetBitsDefined(p) == p.kind = "NoteCommitment" \/ p.num < MerkleLimit

\* Personalization::get_bits, when its assertion holds.
GetBits(p) ==
  IF p.kind = "NoteCommitment"
  THEN << TRUE, TRUE, TRUE, TRUE, TRUE, TRUE >>
  ELSE [i \in 1..PersonalizationLen |-> ((p.num \div (2 ^ (i - 1))) % 2) = 1]


\* ------------------------------------------------- inputs
\* Message lengths: the short range, the lengths around the end of the
\* first segment (ChunksPerGenerator windows = 189 stream bits = 183
\* message bits), and the two lengths of the constraint-count test.
BoundaryLo == WindowBits * ChunksPerGenerator - PersonalizationLen

BoundaryHi == WindowBits * ChunksPerGenerator

Lengths == (0..MaxLen) \cup (BoundaryLo..BoundaryHi) \cup {255, 510}

Patterns == [0..(PatLen - 1) -> BOOLEAN]

AllFalse == [i \in 0..(PatLen - 1) |-> FALSE]

\* Personalizations hashed with every message.
HashPersonalizations == {NoteCommitment, MerkleTree(0), MerkleTree(1)}

\* Every input of a run: a personalization, a message (length and bit
\* pattern) and the number of generators / segment tables of the parameter
\* set.  Every MerkleTree index up to MaxIndex is run on the empty message.
Inputs ==
  [p : HashPersonalizations, len : Lengths, pat : Patterns, gens : 1..MaxGens]
  \cup
  [p : {MerkleTree(n) : n \in 0..MaxIndex}, len : {0}, pat : {AllFalse},
   gens : 1..MaxGens]

VARIABLES
  personalization,   \* input: the Personalization
  msg_len,           \* input: number of message bits
  msg_pat,           \* input: the message bits (periodic pattern)
  num_generators,    \* input: generators / segment tables in params
  \* native pedersen_hash
  n_pc,              \* "start", "while", "done", "panic"
  pers_bits,         \* the Vec<bool> returned by get_bits
  bits,              \* position of the chained bit iterator
  result,            \* running result point
  generators,        \* generators taken from the iterator so far
  acc, cur,          \* scalar accumulator and running power
  chunks_remaining,
  encountered_bits,
  n_windows,         \* history: windows of the current segment
  n_count,           \* history: windows processed so far
  \* circuit pedersen_hash
  c_pc,              \* "start", "while", "ok", "err", "panic"
  c_personalization, \* the 6 constant booleans
  c_bits,            \* position of the chained wire iterator
  hash_result,       \* << >> is None, << p >> is Some(p)
  segment_result,    \* << >> is None, << p >> is Some(p)
  segment_generators,\* segment tables taken from the iterator so far
  segment_windows,   \* length of the remaining slice of the segment table
  segment_i, window_i,
  cs,                \* number of constraints enforced in the caller's system
  c_windows,         \* history: windows of the current segment
  c_count,           \* history: windows processed so far
  c_lookup           \* history: << segment table, window table >> last used

inputs == << personalization, msg_len, msg_pat, num_generators >>

nvars == << n_pc, pers_bits, bits, result, generators, acc, cur,
            chunks_remaining, encountered_bits, n_windows, n_count >>

cvars == << c_pc, c_personalization, c_bits, hash_result, segment_result,
            segment_generators, segment_windows, segment_i, window_i, cs,
            c_windows, c_count, c_lookup >>

vars == << inputs, nvars, cvars >>

\* Number of bits of the personalized stream.
StreamLen == PersonalizationLen + msg_len

\* Bit i (0-based) of the chain of the personalization bits pb and the message.
StreamBit(pb, i) ==
  IF i < PersonalizationLen THEN pb[i + 1]
  ELSE msg_pat[(i - PersonalizationLen) % PatLen]

\* Mutant of NextOrFalse: a missing bit is padded with true.
NextOrTrue(pb, i) == IF i < StreamLen THEN StreamBit(pb, i) ELSE TRUE

\* bits.next().unwrap_or(false) at position i.
NextOrFalse(pb, i) == IF i < StreamLen THEN StreamBit(pb, i) ELSE FALSE

\* Mutant of AfterWindow: a window takes two bits from the iterator.
AfterWindowTwoBits(i) ==
  IF i + WindowBits - 1 < StreamLen THEN i + WindowBits - 1 ELSE StreamLen

\* The iterator position after a window was read at position i.
AfterWindow(i) == IF i + WindowBits < StreamLen THEN i + WindowBits ELSE StreamLen

Init ==
  /\ \E in \in Inputs :
       /\ personalization = in.p
       /\ msg_len = in.len
       /\ msg_pat = in.pat
       /\ num_generators = in.gens
  /\ n_pc = "start"
  /\ pers_bits = << >>
  /\ bits = 0
  /\ result = PointZero
  /\ generators = 0
  /\ acc = FsZero
  /\ cur = FsOne
  /\ chunks_remaining = ChunksPerGenerator
  /\ encountered_bits = FALSE
  /\ n_windows = << >>
  /\ n_count = 0
  /\ c_pc = "start"
  /\ c_personalization = << >>
  /\ c_bits = 0
  /\ hash_result = << >>
  /\ segment_result = << >>
  /\ segment_generators = 0
  /\ segment_windows = 0
  /\ segment_i = 0
  /\ window_i = 0
  /\ cs = 0
  /\ c_windows = << >>
  /\ c_count = 0
  /\ c_lookup = << 0, 0 >>

\* ------------------------------------------------- native pedersen_hash
\* Mutant of WindowScalar: the running power is doubled before bit a is
\* looked at, so that the window counts 1 + 2a + 2b.
WindowScalarDoubleFirst(a, b, c, k) ==
  LET k2 == FsDouble(k)
      t1 == IF a THEN FsAdd(k, k2) ELSE k
      t2 == IF b THEN FsAdd(t1, k2) ELSE t1
      t3 == IF c THEN FsNegate(t2) ELSE t2
  IN [tmp |-> t3, cur |-> k2]

\* The scalar of one window: tmp = (1 + a + 2b) * cur, negated when c; the
\* running power is doubled once on the way.
WindowScalar(a, b, c, k) ==
  LET t1 == IF a THEN FsAdd(k, k) ELSE k
      k2 == FsDouble(k)
      t2 == IF b THEN FsAdd(t1, k2) ELSE t1
      t3 == IF c THEN FsNegate(t2) ELSE t2
  IN [tmp |-> t3, cur |-> k2]

\* Mutant of AdvanceWindow: one doubling is missing.
AdvanceWindowTwice(k) == FsDouble(FsDouble(k))

\* The three doublings between two windows of one segment.
AdvanceWindow(k) == FsDouble(FsDouble(FsDouble(k)))

\* Start of the call: get_bits, then the first iteration of the segment loop.
NativeStart ==
  /\ n_pc = "start"
  /\ IF GetBitsDefined(personalization)
     THEN /\ pers_bits' = GetBits(personalization)
          /\ n_pc' = "while"
     ELSE /\ pers_bits' = pers_bits
          /\ n_pc' = "panic"
  /\ bits' = 0
  /\ result' = PointZero
  /\ generators' = 0
  /\ acc' = FsZero
  /\ cur' = FsOne
  /\ chunks_remaining' = ChunksPerGenerator
  /\ encountered_bits' = FALSE
  /\ n_windows' = << >>
  /\ n_count' = 0
  /\ UNCHANGED << inputs, cvars >>

\* The while loop goes on: the last window did not break out of it and
\* bits.next() is Some.
NativeLoopContinues ==
  n_pc = "while" /\ chunks_remaining > 0 /\ bits < StreamLen

\* The while loop has ended: by the break of window 63, or on bits.next()
\* being None.
NativeLoopEnded ==
  n_pc = "while" /\ (chunks_remaining = 0 \/ bits >= StreamLen)

\* One iteration of the while loop: one window of three bits.
NativeWindow ==
  /\ NativeLoopContinues
  /\ LET a == StreamBit(pers_bits, bits)
         b == NextOrFalse(pers_bits, bits + 1)
         c == NextOrFalse(pers_bits, bits + 2)
         w == WindowScalar(a, b, c, cur)
     IN /\ encountered_bits' = TRUE
        /\ acc' = FsAdd(acc, w.tmp)
        /\ chunks_remaining' = chunks_remaining - 1
        /\ cur' = IF chunks_remaining - 1 = 0 THEN w.cur
                  ELSE AdvanceWindow(w.cur)
        /\ n_windows' = Append(n_windows, << a, b, c >>)
        /\ n_count' = n_count + 1
  /\ bits' = AfterWindow(bits)
  /\ UNCHANGED << inputs, n_pc, pers_bits, result, generators, cvars >>

\* The while loop has ended (63 windows done, or no bit left): the segment
\* is folded into the result and the next iteration starts, or the loop ends.
NativeSegmentEnd ==
  /\ NativeLoopEnded
  /\ IF ~encountered_bits
     THEN /\ n_pc' = "done"
          /\ UNCHANGED << result, generators, acc, cur, chunks_remaining,
                          encountered_bits, n_windows >>
     ELSE IF generators >= num_generators
     THEN /\ n_pc' = "panic"
          /\ UNCHANGED << result, generators, acc, cur, chunks_remaining,
                          encountered_bits, n_windows >>
     ELSE /\ n_pc' = "while"
          /\ generators' = generators + 1
          /\ result' = PointAdd(result, GeneratorMul(generators + 1, acc))
          /\ acc' = FsZero
          /\ cur' = FsOne
          /\ chunks_remaining' = ChunksPerGenerator
          /\ encountered_bits' = FALSE
          /\ n_windows' = << >>
  /\ UNCHANGED << inputs, pers_bits, bits, n_count, cvars >>

NativeDone == n_pc \in {"done", "panic"}

\* ------------------------------------------------- circuit pedersen_hash
\* Constraints enforced by each gadget.
LookupChunk == 2
AddChunks == 3
ConvertSegment == 2
AddSegments == 6

\* 16^j, for j < 7, as a limb.
Pow16(j) == 2 ^ (4 * j)

HexPerLimb == LimbBits \div 4

\* d * 16^j as a scalar, for 0 <= d < 16.
DigitScalar(d, j) ==
  Limbs([i \in 1..NLimbs |-> IF i = (j \div HexPerLimb) + 1
                   THEN d * Pow16(j % HexPerLimb) ELSE 0])

\* The scalar of entry (a, b, c) of the lookup table of window j (0-based)
\* of a segment: (1 + a + 2b) * (-1)^c * 16^j.
TableScalar(j, a, b, c) ==
  LET d == 1 + (IF a THEN 1 ELSE 0) + (IF b THEN 2 ELSE 0)
  IN IF c THEN FsNegate(DigitScalar(d, j)) ELSE DigitScalar(d, j)

\* lookup3_xy_with_conditional_negation on the table of window j of segment
\* table g: the selected point, a multiple of the generator G_g.
Lookup(g, j, a, b, c) == GeneratorMul(g, TableScalar(j, a, b, c))

\* Wire i of the chained stream is a constant: a personalization bit or the
\* padding boolean_false.
ConstantWire(i) == i < PersonalizationLen \/ i >= StreamLen

\* Constraints of one lookup on the wires at stream positions i, i+1, i+2:
\* the precomputation a AND b costs nothing when a or b is a constant.
LookupConstraints(i) ==
  IF ConstantWire(i) \/ ConstantWire(i + 1) THEN LookupChunk - 1
  ELSE LookupChunk

\* MontgomeryPoint::add fails when the two points have the same x.
MontgomeryAddDefined(p, q) == p # q /\ p # PointNegate(q)

\* Mutant of TableIndex: the slice of the segment table is never moved on.
TableIndexStuck(sw) == 0

\* The window table segment_windows[0] when sw windows of the segment table
\* are left in the slice: each window moves the slice on by one table.
TableIndex(sw) == ChunksPerGenerator - sw

\* Mutant of SegmentEndConstraints: the first segment is added to the hash
\* with an Edwards addition as well.
SegmentEndConstraintsAlwaysAdd(h) == ConvertSegment + AddSegments

\* Constraints of the end of a segment: the conversion into Edwards form
\* and, unless this is the first segment, the addition to the hash (h).
SegmentEndConstraints(h) ==
  IF h = << >> THEN ConvertSegment ELSE ConvertSegment + AddSegments

\* Mutant of CircuitLoopHead: running out of segment tables is returned as
\* an error.
CircuitLoopHeadReturnsErr(taken, pc_after) ==
  IF taken >= num_generators
  THEN /\ c_pc' = "err"
       /\ UNCHANGED << segment_generators, segment_windows, window_i,
                       segment_result, c_windows >>
  ELSE /\ c_pc' = pc_after
       /\ segment_generators' = taken + 1
       /\ segment_windows' = ChunksPerGenerator
       /\ window_i' = 0
       /\ segment_result' = << >>
       /\ c_windows' = << >>

\* Mutant of CircuitLoopHead: the slice of the next segment table is not
\* taken, the used-up slice is kept.
CircuitLoopHeadKeepsSlice(taken, pc_after) ==
  IF taken >= num_generators
  THEN /\ c_pc' = "panic"
       /\ UNCHANGED << segment_generators, segment_windows, window_i,
                       segment_result, c_windows >>
  ELSE /\ c_pc' = pc_after
       /\ segment_generators' = taken + 1
       /\ segment_windows' = IF taken = 0 THEN ChunksPerGenerator
                             ELSE segment_windows
       /\ window_i' = 0
       /\ segment_result' = << >>
       /\ c_windows' = << >>

\* Head of the segment loop: the next segment table is taken, or the call
\* panics ("enough segments").
CircuitLoopHead(taken, pc_after) ==
  IF taken >= num_generators
  THEN /\ c_pc' = "panic"
       /\ UNCHANGED << segment_generators, segment_windows, window_i,
                       segment_result, c_windows >>
  ELSE /\ c_pc' = pc_after
       /\ segment_generators' = taken + 1
       /\ segment_windows' = ChunksPerGenerator
       /\ window_i' = 0
       /\ segment_result' = << >>
       /\ c_windows' = << >>

\* Start of the call: get_constant_bools, then the head of the first
\* iteration of the segment loop.
CircuitStart ==
  /\ NativeDone
  /\ c_pc = "start"
  /\ IF GetBitsDefined(personalization)
     THEN /\ c_personalization' = GetBits(personalization)
          /\ CircuitLoopHead(0, "while")
     ELSE /\ c_pc' = "panic"
          /\ UNCHANGED << c_personalization, segment_generators,
                          segment_windows, window_i, segment_result,
                          c_windows >>
  /\ hash_result' = << >>
  /\ c_bits' = 0
  /\ segment_i' = 0
  /\ UNCHANGED << inputs, nvars, cs, c_count, c_lookup >>

\* The while loop goes on: the last window did not break out of it and
\* bits.next() is Some.
CircuitLoopContinues ==
  c_pc = "while" /\ segment_windows > 0 /\ c_bits < StreamLen

\* The while loop has ended: by the break on the used-up slice, or on
\* bits.next() being None.
CircuitLoopEnded ==
  c_pc = "while" /\ (segment_windows = 0 \/ c_bits >= StreamLen)

\* One iteration of the while loop: the lookup of one window and its
\* Montgomery addition to the segment's result.
CircuitWindow ==
  /\ CircuitLoopContinues
  /\ LET a == StreamBit(c_personalization, c_bits)
         b == NextOrFalse(c_personalization, c_bits + 1)
         c == NextOrFalse(c_personalization, c_bits + 2)
         j == TableIndex(segment_windows)
         tmp == Lookup(segment_generators, j, a, b, c)
         looked == cs + LookupConstraints(c_bits)
     IN /\ c_lookup' = << segment_generators, j >>
        /\ c_windows' = Append(c_windows, << a, b, c >>)
        /\ c_count' = c_count + 1
        /\ c_bits' = AfterWindow(c_bits)
        /\ IF segment_result = << >>
           THEN /\ segment_result' = << tmp >>
                /\ cs' = looked
                /\ segment_windows' = segment_windows - 1
                /\ window_i' = IF segment_windows - 1 = 0 THEN window_i
                               ELSE window_i + 1
                /\ c_pc' = c_pc
           ELSE IF MontgomeryAddDefined(tmp, segment_result[1])
           THEN /\ segment_result' = << PointAdd(tmp, segment_result[1]) >>
                /\ cs' = looked + AddChunks
                /\ segment_windows' = segment_windows - 1
                /\ window_i' = IF segment_windows - 1 = 0 THEN window_i
                               ELSE window_i + 1
                /\ c_pc' = c_pc
           ELSE /\ c_pc' = "err"
                /\ cs' = looked
                /\ UNCHANGED << segment_result, segment_windows, window_i >>
  /\ UNCHANGED << inputs, nvars, c_personalization, hash_result,
                  segment_generators, segment_i >>

\* The while loop has ended (the segment table is used up, or no wire is
\* left): the segment is converted and added to the hash and the next
\* iteration starts, or the loop ends and the hash is returned.
CircuitSegmentEnd ==
  /\ CircuitLoopEnded
  /\ IF segment_result = << >>
     THEN /\ c_pc' = IF hash_result = << >> THEN "panic" ELSE "ok"
          /\ UNCHANGED << hash_result, cs, segment_i, segment_generators,
                          segment_windows, window_i, segment_result,
                          c_windows >>
     ELSE /\ hash_result' =
               IF hash_result = << >> THEN segment_result
               ELSE << PointAdd(segment_result[1], hash_result[1]) >>
          /\ cs' = cs + SegmentEndConstraints(hash_result)
          /\ segment_i' = segment_i + 1
          /\ CircuitLoopHead(segment_generators, "while")
  /\ UNCHANGED << inputs, nvars, c_personalization, c_bits, c_count,
                  c_lookup >>

CircuitDone == c_pc \in {"ok", "err", "panic"}

Next ==
  \/ NativeStart
  \/ NativeWindow
  \/ NativeSegmentEnd
  \/ CircuitStart
  \/ CircuitWindow
  \/ CircuitSegmentEnd

Spec == Init /\ [][Next]_vars

\* ------------------------------------------------- test helper
\* ph_num_constraints: the predicted number of constraints of the circuit
\* hash of input_bits non-constant message bits.
PhNumConstraints(input_bits) ==
  LET personalized_bits == PersonalizationLen + input_bits
      precomputed_booleans ==
        2 + (IF personalized_bits % WindowBits = 1 THEN 1 ELSE 0)
      chunks == (personalized_bits + WindowBits - 1) \div WindowBits
      segments == (chunks + ChunksPerGenerator - 1) \div ChunksPerGenerator
      all_but_last_segments == segments - 1
      last_chunks == chunks - all_but_last_segments * ChunksPerGenerator
  IN chunks * LookupChunk
     - precomputed_booleans
     + segments * ConvertSegment
     + all_but_last_segments
         * ((ChunksPerGenerator - 1) * AddChunks + AddSegments)
     + (last_chunks - 1) * AddChunks

\* ------------------------------------------------- properties
\* ceil(n / 3): the windows of a stream of n bits.
CeilChunks(n) == (n + WindowBits - 1) \div WindowBits

\* ceil(ceil(n / 3) / 63): the segments of a stream of n bits.
RequiredSegments(n) ==
  (CeilChunks(n) + ChunksPerGenerator - 1) \div ChunksPerGenerator

\* The number whose little-endian bits are bs.
RECURSIVE LittleEndianValue(_)
LittleEndianValue(bs) ==
  IF bs = << >> THEN 0
  ELSE (IF Head(bs) THEN 1 ELSE 0) + 2 * LittleEndianValue(Tail(bs))

\* What get_bits returned for p, as the Vec v and the caller's state pc.
GetBitsContract(p, v, pc) ==
  /\ p.kind = "NoteCommitment" =>
       /\ Len(v) = PersonalizationLen
       /\ \A i \in 1..Len(v) : v[i]
  /\ (p.kind = "MerkleTree" /\ p.num < 63) =>
       /\ Len(v) = PersonalizationLen
       /\ LittleEndianValue(v) = p.num
  /\ (p.kind = "MerkleTree" /\ p.num >= 63) =>
       /\ pc = "panic"
       /\ v = << >>

\* C2: get_bits returns exactly 6 booleans, all true for NoteCommitment and
\* the little-endian bits of n for MerkleTree(n) with n < 63; it fails,
\* returning no bits, for every MerkleTree(n) with n >= 63.  This holds of
\* the call made by the native hash and of the one made by the circuit hash.
C2_GetBits ==
  /\ n_pc # "start" => GetBitsContract(personalization, pers_bits, n_pc)
  /\ c_pc # "start" =>
       GetBitsContract(personalization, c_personalization, c_pc)

\* C2 witness: MerkleTree(62) has passed get_bits in both calls, with the
\* bits of 62, least significant first.
C2_Witness ==
  /\ personalization = MerkleTree(62)
  /\ n_pc = "done"
  /\ c_pc = "while"
  /\ pers_bits = << FALSE, TRUE, TRUE, TRUE, TRUE, TRUE >>
  /\ c_personalization = pers_bits

\* C3 (as claimed): whenever the parameter set holds at least
\* ceil(ceil((6 + L) / 3) / 63) segment tables, the circuit hash does not
\* fail for lack of tables: it completes and returns a point.
C3_EnoughTablesSuffice ==
  ( /\ CircuitDone
    /\ GetBitsDefined(personalization)
    /\ num_generators >= RequiredSegments(StreamLen) )
  => c_pc = "ok"

\* C4 (as claimed): a message of 189 bits takes exactly 2 generators, one of
\* 188 bits takes 2, and one of 183 to 187 bits takes exactly 1.
C4_BoundaryAsClaimed ==
  n_pc = "done" =>
    /\ msg_len \in {188, 189} => generators = 2
    /\ msg_len \in 183..187 => generators = 1

\* C4 (amended): a message of 189 bits takes exactly 2 generators, one of
\* 188 bits takes 2, one of 184 to 187 bits takes 2 as well (64 or 65
\* windows), and one of 183 bits (exactly 63 windows) takes exactly 1.
C4_Boundary ==
  n_pc = "done" =>
    /\ msg_len \in 184..189 => generators = 2
    /\ msg_len = 183 => generators = 1

\* C4 witness: a message of 184 bits has been hashed with 2 generators.
C4_Witness == n_pc = "done" /\ msg_len = 184 /\ generators = 2

\* C5: for L in {0, 183, 184, 185, 255, 510} non-constant message bits the
\* circuit hash enforces exactly the number of constraints of the closed
\* form, which is 867 for L = 510.
C5_ConstraintCount ==
  (c_pc = "ok" /\ msg_len \in {0, 183, 184, 185, 255, 510}) =>
    /\ cs = PhNumConstraints(msg_len)
    /\ msg_len = 510 => cs = 867

\* C5 witness: the circuit hash of 510 message bits has returned, three
\* segments long.
C5_Witness == c_pc = "ok" /\ msg_len = 510 /\ segment_i = 3 /\ cs = 867

\* The digit 1 + a + 2b of the window w = (a, b, c).
Digit(w) == 1 + (IF w[1] THEN 1 ELSE 0) + (IF w[2] THEN 2 ELSE 0)

\* The digit of window j (0-based) of ws when its sign bit c is neg, else 0.
DigitAt(ws, j, neg) ==
  IF j < Len(ws) /\ ws[j + 1][3] = neg THEN Digit(ws[j + 1]) ELSE 0

\* The integer sum of Digit(w_j) * 16^j over the windows of ws whose sign
\* bit is neg.  The digits are below 16, so the sum has them as its
\* hexadecimal digits, seven to a limb.
PartSum(ws, neg) ==
  Limbs([i \in 1..NLimbs |->
    LET j == HexPerLimb * (i - 1)
    IN DigitAt(ws, j, neg)
       + DigitAt(ws, j + 1, neg) * Pow16(1)
       + DigitAt(ws, j + 2, neg) * Pow16(2)
       + DigitAt(ws, j + 3, neg) * Pow16(3)
       + DigitAt(ws, j + 4, neg) * Pow16(4)
       + DigitAt(ws, j + 5, neg) * Pow16(5)
       + DigitAt(ws, j + 6, neg) * Pow16(6)])

\* |x - y| for two integers.
AbsDiff(x, y) == IF Geq(x, y) THEN SubNoBorrow(x, y) ELSE SubNoBorrow(y, x)

\* x - y modulo s, for integers x, y with |x - y| < s.
DiffModS(x, y) ==
  IF Geq(x, y) THEN SubNoBorrow(x, y)
  ELSE SubNoBorrow(Modulus, SubNoBorrow(y, x))

\* The sum over j of (1 + a_j + 2 b_j) * (-1)^(c_j) * 16^j in the field.
SignedSumModS(ws) == DiffModS(PartSum(ws, FALSE), PartSum(ws, TRUE))

\* C7: in the native hash the accumulator of a segment is the sum over its
\* windows (a_j, b_j, c_j) of (1 + a_j + 2 b_j) * (-1)^(c_j) * 2^(4j) in the
\* scalar field; acc starts at 0 and cur at 1 in every segment, and cur is
\* 16^j when window j is about to be read.  The accumulator of the state in
\* which the while loop has ended is the one multiplied into the generator.
C7_SegmentScalar ==
  n_pc = "while" =>
    /\ Len(n_windows) = ChunksPerGenerator - chunks_remaining
    /\ acc = SignedSumModS(n_windows)
    /\ n_windows = << >> => (acc = FsZero /\ cur = FsOne)
    /\ chunks_remaining > 0 => cur = DigitScalar(1, Len(n_windows))

\* C7 witness: the while loop of a second segment has ended after more than
\* one window, with windows of both signs, and it is not the first segment.
C7_Witness ==
  /\ n_pc = "while"
  /\ bits >= StreamLen
  /\ generators = 1
  /\ Len(n_windows) > 1
  /\ \E i, j \in 1..Len(n_windows) : n_windows[i][3] /\ ~n_windows[j][3]

\* 2^250 + 2^247
AccBound == Limbs([i \in 1..NLimbs |-> IF i = 9 THEN 2 ^ 26 + 2 ^ 23 ELSE 0])

\* 8 * (16^0 + 16^1 + ... + 16^62)
AllEights ==
  Limbs([i \in 1..NLimbs |-> IF i = NLimbs THEN 0
                   ELSE 8 * (1 + Pow16(1) + Pow16(2) + Pow16(3) + Pow16(4)
                               + Pow16(5) + Pow16(6))])

\* Hexadecimal digit j (0-based) of x.
HexDigit(x, j) == (x[(j \div HexPerLimb) + 1] \div Pow16(j % HexPerLimb)) % 16

\* The signed digit of window j of ws: (1 + a + 2b) * (-1)^c, or 0 past the
\* end of ws.
SignedDigitAt(ws, j) == DigitAt(ws, j, FALSE) - DigitAt(ws, j, TRUE)

\* The window sequence is read back from the accumulator x: with 8 added to
\* every one of its 63 digits, hexadecimal digit j of the sum is the signed
\* digit of window j plus 8, and 8 past the last window.
DecodesTo(x, ws) ==
  \A j \in 0..(ChunksPerGenerator - 1) :
    HexDigit(x, j) - 8 = SignedDigitAt(ws, j)

\* C10: for the windows of a segment, of every length 1..63, the signed
\* integer sum of (1 + a_j + 2 b_j) * (-1)^(c_j) * 16^j is not zero and is
\* below 2^250 + 2^247 in absolute value, which is less than half of s; the
\* accumulator is that sum modulo s, and the window sequence (its length
\* included) is recovered from the accumulator, so that no two window
\* sequences have the same accumulator.
C10_EncodingInjective ==
  (n_pc = "while" /\ n_windows # << >>) =>
    LET p == PartSum(n_windows, FALSE)
        n == PartSum(n_windows, TRUE)
    IN /\ AbsDiff(p, n) # FsZero
       /\ ~Geq(AbsDiff(p, n), AccBound)
       /\ ~Geq(AddNoCarry(AccBound, AccBound), Modulus)
       /\ acc = DiffModS(p, n)
       /\ DecodesTo(FsAdd(acc, AllEights), n_windows)

\* C10 witness: a full segment of 63 windows whose sum is negative (the
\* accumulator has wrapped around s).
C10_Witness ==
  /\ n_pc = "while"
  /\ Len(n_windows) = ChunksPerGenerator
  /\ n_windows[ChunksPerGenerator][3]
  /\ Geq(acc, AccBound)

\* C1: when both calls return, on the same personalization, message and
\* parameters (the table entry of segment i, window j, bits a, b, c being
\* (1 + a + 2b) * (-1)^c * 16^j * G_i), the point returned by the circuit
\* hash is the point returned by the native hash.
C1_NativeCircuitEquivalence ==
  (n_pc = "done" /\ c_pc = "ok") => hash_result = << result >>

\* C1 witness: both calls have returned the hash of a message of three
\* segments under MerkleTree(1), a point with a part on every one of the
\* three generators.
C1_Witness ==
  /\ n_pc = "done"
  /\ c_pc = "ok"
  /\ personalization = MerkleTree(1)
  /\ msg_len = 510
  /\ \A g \in 1..3 : result[g] # FsZero

\* Window k (0-based) of the stream whose personalization bits are pb:
\* positions 3k, 3k+1, 3k+2, every position past the end read as false.
ExpectedWindow(pb, k) ==
  LET Bit(i) == IF i < StreamLen THEN StreamBit(pb, i) ELSE FALSE
  IN << Bit(WindowBits * k), Bit(WindowBits * k + 1), Bit(WindowBits * k + 2) >>

Min(x, y) == IF x < y THEN x ELSE y

\* What holds of a path that has processed count windows, the last of them
\* being the last of ws (the windows of the current segment), with the
\* iterator of the stream at position pos.
WindowingContract(pb, count, ws, pos) ==
  /\ pos = Min(WindowBits * count, StreamLen)
  /\ count <= CeilChunks(StreamLen)
  /\ Len(ws) <= count
  /\ ws # << >> =>
       /\ ws[Len(ws)] = ExpectedWindow(pb, count - 1)
       /\ WindowBits * (count - 1) < StreamLen
       /\ Len(ws) = ((count - 1) % ChunksPerGenerator) + 1

\* C8: in both paths the windows are processed in stream order; window k is
\* (s[3k], s[3k+1], s[3k+2]) with every position past the end read as
\* false, its first bit is a bit of the stream, and it is processed in
\* segment floor(k / 63) (native: the generator taken for that segment;
\* circuit: that segment table, labelled segment_i) at window position
\* k mod 63 (circuit: that window table, labelled window_i); a path that
\* has returned has processed exactly ceil(n / 3) windows.
C8_Windowing ==
  /\ n_pc \in {"while", "done"} =>
       /\ WindowingContract(pers_bits, n_count, n_windows, bits)
       /\ n_windows # << >> =>
            generators = (n_count - 1) \div ChunksPerGenerator
       /\ n_pc = "done" => n_count = CeilChunks(StreamLen)
  /\ c_pc \in {"while", "ok"} =>
       /\ WindowingContract(c_personalization, c_count, c_windows, c_bits)
       /\ c_windows # << >> =>
            /\ c_lookup = << ((c_count - 1) \div ChunksPerGenerator) + 1,
                             (c_count - 1) % ChunksPerGenerator >>
            /\ segment_i = (c_count - 1) \div ChunksPerGenerator
            /\ window_i = Min(((c_count - 1) % ChunksPerGenerator) + 1,
                              ChunksPerGenerator - 1)
       /\ c_pc = "ok" => c_count = CeilChunks(StreamLen)

\* C8 witness: both paths have read, in a second segment, a last window
\* that holds one bit of the stream and two padding bits.
C8_Witness ==
  /\ n_pc = "done"
  /\ c_pc = "while"
  /\ StreamLen % WindowBits = 1
  /\ c_bits = StreamLen
  /\ c_count > ChunksPerGenerator
  /\ c_windows # << >>
  /\ c_windows[Len(c_windows)][1]
  /\ msg_pat[(msg_len - 1) % PatLen]

\* C6 (as claimed): every failure of the circuit hash is a returned error,
\* not an abort, and leaves none of this hash's constraints in the caller's
\* constraint system.
C6_FailuresReturnedAsClaimed ==
  (CircuitDone /\ c_pc # "ok") => (c_pc = "err" /\ cs = 0)

\* The message length whose hash is made of the windows that g segment
\* tables can take.
LenWithinTables(g) ==
  Min(msg_len, WindowBits * ChunksPerGenerator * g - PersonalizationLen)

\* C6 (amended): too few lookup tables and a MerkleTree index >= 63 abort
\* the call (a panic); only a failing gadget (a Montgomery addition of two
\* points with the same x) is a returned error.  The index check fails
\* before any constraint; after every other failure the constraints
\* enforced before it are still in the caller's constraint system: when the
\* tables run out, those of every window that the tables took.  The call
\* returns a point only when the tables are one more than the segments.
C6_FailureModes ==
  /\ c_pc = "panic" =>
       \/ /\ ~GetBitsDefined(personalization)
          /\ cs = 0
          /\ c_count = 0
       \/ /\ GetBitsDefined(personalization)
          /\ segment_i = num_generators
          /\ num_generators <= RequiredSegments(StreamLen)
          /\ cs = PhNumConstraints(LenWithinTables(num_generators))
          /\ cs > 0
  /\ c_pc = "err" =>
       /\ segment_result # << >>
       /\ c_windows # << >>
       /\ cs > 0
       /\ LET w == c_windows[Len(c_windows)]
          IN ~MontgomeryAddDefined(
                Lookup(c_lookup[1], c_lookup[2], w[1], w[2], w[3]),
                segment_result[1])
  /\ c_pc = "ok" =>
       /\ GetBitsDefined(personalization)
       /\ num_generators > RequiredSegments(StreamLen)

\* C6 witness: the call has aborted for lack of tables in the middle of a
\* message, with the constraints of the first segment enforced.
C6_Witness ==
  /\ c_pc = "panic"
  /\ num_generators = 1
  /\ RequiredSegments(StreamLen) = 3
  /\ cs = PhNumConstraints(183)

\* The generators on which point p has a part are exactly G_1 .. G_k.
PartsOn(p, k) == \A g \in 1..MaxGens : (p[g] # FsZero) <=> (g <= k)

\* The steps taken so far by both calls: every action adds to it.
Progress ==
  LET Rank(pc) == IF pc = "start" THEN 0 ELSE IF pc = "while" THEN 1 ELSE 2
  IN Rank(n_pc) + n_count + generators + Rank(c_pc) + c_count + segment_i

\* No run takes more steps than this.
ProgressBound ==
  4 + 2 * (CeilChunks(StreamLen) + RequiredSegments(StreamLen))

\* A call that has not ended has a next step.
HasNextStep ==
  \/ n_pc = "start"
  \/ NativeLoopContinues
  \/ NativeLoopEnded
  \/ NativeDone /\ c_pc = "start"
  \/ CircuitLoopContinues
  \/ CircuitLoopEnded

=============================================================================
